---- MODULE Spec2Model ----
(***************************************************************************)
(* A model of glob2 (src/glob2/impl.py): the pattern translator            *)
(* (translate / Globber.filter) and the recursive resolver                 *)
(* (Globber._iglob / resolve_pattern / walk), run over small POSIX file    *)
(* systems.                                                                *)
(*                                                                         *)
(* Strings (patterns, paths, names, captures) are sequences of one-        *)
(* character strings, so that slicing, joining and splitting are computed   *)
(* as the code computes them.  The platform is POSIX: os.sep is "/",       *)
(* os.curdir is ".", os.path.normcase is the identity.  The regular        *)
(* expression that translate() builds is modelled by its token list and a  *)
(* greedy backtracking matcher (the behaviour of re.match on it with the   *)
(* DOTALL and MULTILINE flags on the interpreters that accept the trailing *)
(* "(?ms)").                                                               *)
(***************************************************************************)
EXTENDS Integers, Sequences, FiniteSets, TLC

(***************************************************************************)
(* Bounds of the model.                                                    *)
(***************************************************************************)
\* the longest pattern, in path segments
MaxSegs == 3
\* the longest pattern, and the most "**" segments of a pattern, that is
\* run with links followed over the tree whose link makes a loop
MaxLoopSegs == 2
MaxLoopStars == 1
\* the number of symbolic links the operating system follows while it
\* resolves one path before it fails with ELOOP (Linux)
SymLoopMax == 40
\* the longest name and the longest literal prefix/suffix given to filter()
MaxNameLen == 3
MaxFixLen == 1

(***************************************************************************)
(* Strings                                                                 *)
(***************************************************************************)
SLASH == "/"
BSLASH == "\\"

\* s[from:] of Python, `from` counted from 0
SliceFrom(s, from) == SubSeq(s, from + 1, Len(s))

\* s[:to] of Python
SliceTo(s, to) == SubSeq(s, 1, to)

StartsWith(s, p) == Len(p) <= Len(s) /\ SubSeq(s, 1, Len(p)) = p

EndsWith(s, p) == Len(p) <= Len(s) /\ SubSeq(s, Len(s) - Len(p) + 1, Len(s)) = p

\* str.rfind(c) + 1: the 1-based place of the last c, 0 when there is none
RFind1(s, c) ==
    CHOOSE i \in 0..Len(s) :
        /\ i > 0 => s[i] = c
        /\ \A j \in (i + 1)..Len(s) : s[j] # c

\* str.rstrip(c)
RStrip(s, c) ==
    SubSeq(s, 1, CHOOSE i \in 0..Len(s) :
                     /\ i > 0 => s[i] # c
                     /\ \A j \in (i + 1)..Len(s) : s[j] = c)

AllChar(s, c) == \A i \in 1..Len(s) : s[i] = c

\* re.error was raised: there is no value
ReError == [ok |-> FALSE, groups |-> <<>>, error |-> "re.error"]

\* re.sub reads its replacement as a template, in which a backslash begins
\* an escape: for the one-character replacement "\\" it raises re.error
\* ("bad escape (end of pattern)"), whatever the path
SubRaises(sep) == sep = BSLASH

\* re.sub(r'[\\/]', sep, path), sep one character
SubSeps(path, sep) ==
    IF SubRaises(sep) THEN ReError
    ELSE [i \in 1..Len(path) |->
             IF path[i] \in {SLASH, BSLASH} THEN sep ELSE path[i]]

MagicChars == {"*", "?", "["}

has_magic(s) == \E i \in 1..Len(s) : s[i] \in MagicChars

_ishidden(path) == path[1] = "."

\* os.path.join(a, b) of posixpath
Join(a, b) ==
    IF StartsWith(b, <<SLASH>>) THEN b
    ELSE IF a = <<>> \/ EndsWith(a, <<SLASH>>) THEN a \o b
    ELSE a \o <<SLASH>> \o b

\* _join_paths([a, b], sep): sep is <<>> for None, <<c>> for the character c
_join_paths(a, b, sep) ==
    IF sep # <<>> THEN SubSeps(Join(a, b), sep[1]) ELSE Join(a, b)

\* os.path.split(p) of posixpath: <<head, tail>>
Split(p) ==
    CHOOSE ht \in
        {IF head # <<>> /\ ~AllChar(head, SLASH)
         THEN <<RStrip(head, SLASH), SliceFrom(p, i)>>
         ELSE <<head, SliceFrom(p, i)>> :
            i \in {RFind1(p, SLASH)}, head \in {SliceTo(p, RFind1(p, SLASH))}} :
        TRUE

(***************************************************************************)
(* Pattern translator                                                      *)
(***************************************************************************)
\* The tokens of the regular expression translate() emits:
\*   "(.*)" star, "(.)" any, "([stuff])" class, an escaped literal.
StarTok == [t |-> "star", neg |-> FALSE, chars |-> {}]
AnyTok == [t |-> "any", neg |-> FALSE, chars |-> {}]
LitTok(c) == [t |-> "lit", neg |-> FALSE, chars |-> {c}]

\* the printable characters in the order of their code points, from " " on
\* ("dquote" and "bquote" hold the places of the double quote and of the
\* backquote)
AsciiChars ==
    <<" ", "!", "dquote", "#", "$", "%", "&", "'", "(", ")", "*", "+",
      ",", "-", ".", "/", "0", "1", "2", "3", "4", "5", "6", "7",
      "8", "9", ":", ";", "<", "=", ">", "?", "@", "A", "B", "C",
      "D", "E", "F", "G", "H", "I", "J", "K", "L", "M", "N", "O",
      "P", "Q", "R", "S", "T", "U", "V", "W", "X", "Y", "Z", "[",
      "\\", "]", "^", "_", "bquote", "a", "b", "c", "d", "e", "f", "g",
      "h", "i", "j", "k", "l", "m", "n", "o", "p", "q", "r", "s",
      "t", "u", "v", "w", "x", "y", "z", "{", "|", "}", "~">>

\* the place of a character in that order, as re compares the ends of a range
OrdOf ==
    [c \in {AsciiChars[i] : i \in 1..Len(AsciiChars)} |->
        CHOOSE i \in 1..Len(AsciiChars) : AsciiChars[i] = c]

\* ord(c), counted from the first printable character
Ord(c) == OrdOf[c]

\* what re.compile makes of a class it cannot parse: it raises re.error
ErrTok == [t |-> "error", neg |-> FALSE, chars |-> {}]

RECURSIVE ClassItems(_, _)
\* The characters of the items of a class from place i on, as re reads
\* them: x-y is the range from x to y, and "bad character range" when y
\* comes before x; a "-" that no character follows stands for itself.
ClassItems(stuff, i) ==
    IF i > Len(stuff) THEN [ok |-> TRUE, chars |-> {}]
    ELSE IF i + 2 <= Len(stuff) /\ stuff[i + 1] = "-"
    THEN CHOOSE items \in
             {IF lo > hi THEN [ok |-> FALSE, chars |-> {}]
              ELSE [ok    |-> rest.ok,
                    chars |-> {AsciiChars[k] : k \in lo..hi} \cup rest.chars] :
                 lo \in {Ord(stuff[i])}, hi \in {Ord(stuff[i + 2])},
                 rest \in {ClassItems(stuff, i + 3)}} : TRUE
    ELSE CHOOSE items \in
             {[ok |-> rest.ok, chars |-> {stuff[i]} \cup rest.chars] :
                 rest \in {ClassItems(stuff, i + 1)}} : TRUE

\* "([stuff])": a leading "!" negates the class; a backslash and a leading
\* "^" are escaped and stand for themselves; everything else is as re
\* reads a class.
ClassTok(stuff) ==
    CHOOSE tok \in
        {IF items.ok
         THEN [t |-> "class", neg |-> stuff[1] = "!", chars |-> items.chars]
         ELSE ErrTok :
            items \in {ClassItems(stuff, IF stuff[1] = "!" THEN 2 ELSE 1)}} :
        TRUE

\* The index j (0-based, as in the code) at which the scan for the closing
\* "]" of a class opened before position i stops; n when there is none.
ClassEnd(pat, i) ==
    LET n  == Len(pat)
        j1 == IF i < n /\ pat[i + 1] = "!" THEN i + 1 ELSE i
        j2 == IF j1 < n /\ pat[j1 + 1] = "]" THEN j1 + 1 ELSE j1
        closing == {j \in j2..(n - 1) : pat[j + 1] = "]"}
    IN  IF closing = {} THEN n
        ELSE CHOOSE j \in closing : \A k \in closing : j <= k

RECURSIVE TranslateFrom(_, _)
\* the tokens translate() appends from position i (0-based) on
TranslateFrom(pat, i) ==
    IF i >= Len(pat) THEN <<>>
    ELSE LET c == pat[i + 1]
         IN  IF c = "*" THEN <<StarTok>> \o TranslateFrom(pat, i + 1)
             ELSE IF c = "?" THEN <<AnyTok>> \o TranslateFrom(pat, i + 1)
             ELSE IF c = "["
                  THEN LET j == ClassEnd(pat, i + 1)
                       IN  IF j >= Len(pat)
                           THEN <<LitTok("[")>> \o TranslateFrom(pat, i + 1)
                           ELSE <<ClassTok(SubSeq(pat, i + 2, j))>>
                                    \o TranslateFrom(pat, j + 1)
             ELSE <<LitTok(c)>> \o TranslateFrom(pat, i + 1)

translate(pat) == TranslateFrom(pat, 0)

\* whether re.compile accepts the translated pattern
Compiles(toks) == \A i \in 1..Len(toks) : toks[i].t # "error"

\* the number of capture groups of the translated pattern
NumGroups(toks) == Cardinality({i \in 1..Len(toks) : toks[i].t # "lit"})

NoMatch == [ok |-> FALSE, groups |-> <<>>]

RECURSIVE MatchFrom(_, _, _)
RECURSIVE StarMatch(_, _, _, _)
\* re.match of the tokens from token ti on against s, anchored at both
\* ends (\Z): the groups of the first match in backtracking order.  (The
\* match of the rest is bound over a one-element set, so that it is
\* computed once also where ENABLED is evaluated.)
MatchFrom(toks, ti, s) ==
    IF ti > Len(toks)
    THEN IF s = <<>> THEN [ok |-> TRUE, groups |-> <<>>] ELSE NoMatch
    ELSE LET tk == toks[ti]
         IN  IF tk.t = "star" THEN StarMatch(toks, ti, s, Len(s))
             ELSE IF s = <<>> THEN NoMatch
             ELSE LET c    == s[1]
                      hit  == CASE tk.t = "any"   -> TRUE
                                []   tk.t = "lit"   -> c \in tk.chars
                                []   tk.t = "class" -> (c \in tk.chars) # tk.neg
                  IN  IF ~hit THEN NoMatch
                      ELSE CHOOSE m \in
                          {IF ~rest.ok THEN NoMatch
                           ELSE IF tk.t = "lit" THEN rest
                           ELSE [ok |-> TRUE,
                                 groups |-> <<<<c>>>> \o rest.groups] :
                              rest \in {MatchFrom(toks, ti + 1, Tail(s))}} :
                          TRUE

RECURSIVE StarMatchPlus(_, _, _, _)
\* a variant that translates "*" to "(.+)"
StarMatchPlus(toks, ti, s, k) ==
    IF k = 0 THEN NoMatch
    ELSE CHOOSE m \in
             {IF rest.ok
              THEN [ok |-> TRUE, groups |-> <<SubSeq(s, 1, k)>> \o rest.groups]
              ELSE StarMatchPlus(toks, ti, s, k - 1) :
                 rest \in {MatchFrom(toks, ti + 1, SubSeq(s, k + 1, Len(s)))}} :
             TRUE

\* "(.*)" is greedy: the longest k first
StarMatch(toks, ti, s, k) ==
    CHOOSE m \in
        {IF rest.ok
         THEN [ok |-> TRUE, groups |-> <<SubSeq(s, 1, k)>> \o rest.groups]
         ELSE IF k = 0 THEN NoMatch
         ELSE StarMatch(toks, ti, s, k - 1) :
            rest \in {MatchFrom(toks, ti + 1, SubSeq(s, k + 1, Len(s)))}} : TRUE

\* _compile_pattern(pat, case_sensitive = True)(name)
CompiledMatch(pat, name) ==
    CHOOSE m \in {IF Compiles(toks) THEN MatchFrom(toks, 1, s) ELSE ReError :
                     toks \in {translate(pat)}, s \in {name}} : TRUE

\* Globber._norm_paths: mode "none" (norm_paths is None) puts sep, or os.sep,
\* in the place of every slash and backslash; "true" is os.path.normcase, which
\* on POSIX returns its argument; "false" leaves the path alone.
_norm_paths(path, mode, sep) ==
    IF mode = "none"
    THEN SubSeps(path, IF sep # <<>> THEN sep[1] ELSE SLASH)
    ELSE path

\* Globber._norm_paths raises re.error, whatever the path
NormRaises(mode, sep) ==
    mode = "none" /\ SubRaises(IF sep # <<>> THEN sep[1] ELSE SLASH)

NormModes == {"none", "true", "false"}

\* Globber.filter, the body of its loop: what one name appends to result
FilterOne(name, pat, mode, sep) ==
    IF NormRaises(mode, sep) THEN ReError
    ELSE
    CHOOSE one \in
        {IF m.ok
         THEN <<<<name, [i \in 1..Len(m.groups) |->
                            _norm_paths(m.groups[i], mode, sep)]>>>>
         ELSE <<>> :
            m \in {CHOOSE r \in {CompiledMatch(p, n) :
                                     p \in {_norm_paths(pat, mode, sep)},
                                     n \in {_norm_paths(name, mode, sep)}} :
                        TRUE}} : TRUE

\* Globber.filter, its loop: the <<name, groups>> of the names that match,
\* in the order of the names
FilterLoop(names, pat, mode, sep) ==
    CHOOSE result \in
        {[i \in 1..Len(kept) |-> kept[i][1]] :
            kept \in {SelectSeq([i \in 1..Len(names) |->
                                    FilterOne(names[i], pat, mode, sep)],
                                LAMBDA one : one # <<>>)}} : TRUE

\* Globber.filter: _norm_paths(pat) or _compile_pattern raises re.error,
\* before any name is looked at
FilterRaises(pat, mode, sep) ==
    IF NormRaises(mode, sep) THEN TRUE
    ELSE \E p \in {_norm_paths(pat, mode, sep)} : ~Compiles(translate(p))

\* Globber.filter(names, pat)
filter(names, pat, mode, sep) ==
    IF FilterRaises(pat, mode, sep) THEN ReError
    ELSE FilterLoop(names, pat, mode, sep)

(***************************************************************************)
(* The filesystem capability set (Globber.listdir, isdir, islink, exists)  *)
(*                                                                         *)
(* A filesystem is a record: ls maps each real directory (the sequence of  *)
(* names from the root) to the names os.listdir returns for it, in the     *)
(* order it returns them; link maps each symbolic link to the directory it *)
(* points to; cwd is the working directory.  Every other entry is a        *)
(* regular file.                                                           *)
(***************************************************************************)
nA == <<"a">>
nB == <<"b">>
nL == <<"l">>
nFoo == <<"f", "o", "o">>
nPy == <<"p", "y">>
nReadme == <<"R", "E", "A", "D", "M", "E">>
nFilePy == <<"f", "i", "l", "e", ".", "p", "y">>
nFileTxt == <<"f", "i", "l", "e", ".", "t", "x", "t">>
nBarPy == <<"b", "a", "r", ".", "p", "y">>
nHelloPy == <<"h", "e", "l", "l", "o", ".", "p", "y">>
nWorldTxt == <<"w", "o", "r", "l", "d", ".", "t", "x", "t">>
nDotBar == <<".", "b", "a", "r">>
nDotFoo == <<".", "f", "o", "o">>
nDotA == <<".", "a">>

\* the tree of TestRecursive.setup_files, the working directory at its top
PlainFS ==
    [ls   |-> (<<>> :> <<nReadme, nA, nB, nFilePy, nFileTxt>>)
              @@ (<<nA>> :> <<nBarPy, nFoo>>)
              @@ (<<nA, nFoo>> :> <<nHelloPy, nWorldTxt>>)
              @@ (<<nB>> :> <<nBarPy, nPy>>),
     link |-> <<>>,
     cwd  |-> <<>>]

\* the same tree after os.chdir('b'), as in test_parent_dir
PlainFSb == [PlainFS EXCEPT !.cwd = <<nB>>]

\* the tree of TestIncludeHidden.setup_files
HiddenFS ==
    [ls   |-> (<<>> :> <<nReadme, nA, nB, nFilePy, nFileTxt>>)
              @@ (<<nA>> :> <<nDotBar, nDotFoo>>)
              @@ (<<nA, nDotFoo>> :> <<nHelloPy, nWorldTxt>>)
              @@ (<<nB>> :> <<nDotBar, nPy>>),
     link |-> <<>>,
     cwd  |-> <<>>]

\* a/ holds a file b and l, a symbolic link to a/ itself
LinkFS ==
    [ls   |-> (<<>> :> <<nA>>) @@ (<<nA>> :> <<nL, nB>>),
     link |-> (<<nA, nL>> :> <<nA>>),
     cwd  |-> <<>>]

\* a hidden directory .a/ and a directory a/ at the top, a file b in each
DotDirFS ==
    [ls   |-> (<<>> :> <<nDotA, nA>>) @@ (<<nDotA>> :> <<nB>>)
              @@ (<<nA>> :> <<nB>>),
     link |-> <<>>,
     cwd  |-> <<>>]

FSNames == {"plain", "plainb", "hidden", "dotdir", "link"}

FSOf(f) ==
    CASE f = "plain"  -> PlainFS
      [] f = "plainb" -> PlainFSb
      [] f = "hidden" -> HiddenFS
      [] f = "dotdir" -> DotDirFS
      [] f = "link"   -> LinkFS

\* the parent directory of a directory: the root is its own parent
Parent(node) == IF node = <<>> THEN <<>> ELSE SubSeq(node, 1, Len(node) - 1)

\* the components of a path: empty ones and "." name the directory itself
Comps(path) ==
    CHOOSE comps \in
        {SelectSeq([k \in 1..(Len(cuts) - 1) |->
                       SubSeq(path, cuts[k] + 1, cuts[k + 1] - 1)],
                   LAMBDA comp : comp \notin {<<>>, <<".">>}) :
            cuts \in {<<0>> \o SelectSeq([i \in 1..Len(path) |-> i],
                                         LAMBDA i : path[i] = SLASH)
                           \o <<Len(path) + 1>>}} : TRUE

StatErr == [ok |-> FALSE, node |-> <<>>, kind |-> "none"]

\* One step of path resolution: what component comp names in the directory
\* st.node, with st.budget links left to follow.  A name that is missing
\* (ENOENT), a component after a file (ENOTDIR) and a link when no budget is
\* left (ELOOP) are errors.  A link is followed unless it is the last
\* component and followLast is off.
ResolveStep(tree, st, comp, last, followLast) ==
    IF ~st.ok \/ st.kind # "dir" THEN [st EXCEPT !.ok = FALSE]
    ELSE IF comp = <<".", ".">>             \* os.pardir
    THEN [st EXCEPT !.node = Parent(st.node)]
    ELSE IF \A k \in 1..Len(tree.ls[st.node]) : tree.ls[st.node][k] # comp
    THEN [st EXCEPT !.ok = FALSE]
    ELSE IF Append(st.node, comp) \in DOMAIN tree.link
    THEN IF last /\ ~followLast
         THEN [st EXCEPT !.node = Append(st.node, comp), !.kind = "link"]
         ELSE IF st.budget = 0 THEN [st EXCEPT !.ok = FALSE]
         ELSE [st EXCEPT !.node = tree.link[Append(st.node, comp)],
                         !.budget = st.budget - 1]
    ELSE IF Append(st.node, comp) \in DOMAIN tree.ls
    THEN [st EXCEPT !.node = Append(st.node, comp)]
    ELSE [st EXCEPT !.node = Append(st.node, comp), !.kind = "file"]

RECURSIVE ResolveSpan(_, _, _, _, _, _)
\* the steps for components lo..hi of comps, from left to right; the span
\* is halved so that the evaluation nests no deeper than the logarithm of
\* its length
ResolveSpan(tree, st, comps, lo, hi, followLast) ==
    IF lo = hi
    THEN ResolveStep(tree, st, comps[lo], lo = Len(comps), followLast)
    ELSE \* the left half is resolved first
         CHOOSE r \in
             {ResolveSpan(tree, mid, comps, (lo + hi) \div 2 + 1, hi,
                          followLast) :
                 mid \in {ResolveSpan(tree, st, comps, lo, (lo + hi) \div 2,
                                      followLast)}} : TRUE

\* Path resolution from directory `node`: a name that is missing (ENOENT), a
\* file used as a directory (ENOTDIR) and more than `budget` links followed
\* (ELOOP) are errors.  The last component, when it is a link, is followed
\* only if followLast.
ResolveFrom(tree, node, comps, budget, followLast) ==
    IF comps = <<>> THEN [ok |-> TRUE, node |-> node, kind |-> "dir"]
    ELSE CHOOSE r \in
             {IF st.ok THEN [ok |-> TRUE, node |-> st.node, kind |-> st.kind]
              ELSE StatErr :
                 st \in {ResolveSpan(tree,
                                     [ok |-> TRUE, node |-> node,
                                      kind |-> "dir", budget |-> budget],
                                     comps, 1, Len(comps), followLast)}} : TRUE

\* a path that ends in "/" or "/." names a directory, through a final link
NamesDir(path) ==
    EndsWith(path, <<SLASH>>) \/ EndsWith(path, <<SLASH, ".">>) \/ path = <<".">>

\* the outcome of resolving the components of a path from directory `from`
\* (a value bound over a one-element set is computed once, also where
\* ENABLED is evaluated for the fairness condition)
StatComps(f, from, comps, follow, dirOnly) ==
    CHOOSE st \in
        {IF r.ok /\ dirOnly /\ r.kind # "dir" THEN StatErr ELSE r :
            r \in {ResolveFrom(FSOf(f), from, comps, SymLoopMax,
                               follow \/ dirOnly)}} : TRUE

\* os.stat (follow) and os.lstat (~follow) of a path
Stat(f, path, follow) ==
    CHOOSE st \in
        {IF p = <<>> THEN StatErr
         ELSE StatComps(f, IF p[1] = SLASH THEN <<>> ELSE FSOf(f).cwd,
                        comps, follow, NamesDir(p)) :
            p \in {path}, comps \in {Comps(path)}} : TRUE

\* Globber.exists = os.path.lexists
exists(f, path) == Stat(f, path, FALSE).ok

\* Globber.isdir = os.path.isdir
isdir(f, path) == \E r \in {Stat(f, path, TRUE)} : r.ok /\ r.kind = "dir"

\* Globber.islink = os.path.islink
islink(f, path) == \E r \in {Stat(f, path, FALSE)} : r.ok /\ r.kind = "link"

\* Globber.listdir = os.listdir: ok is FALSE when it raises os.error
listdir(f, path) ==
    CHOOSE ls \in
        {IF r.ok /\ r.kind = "dir"
         THEN [ok |-> TRUE, names |-> FSOf(f).ls[r.node]]
         ELSE [ok |-> FALSE, names |-> <<>>] :
            r \in {Stat(f, path, TRUE)}} : TRUE

(***************************************************************************)
(* The resolver: Globber.iglob / _iglob / resolve_pattern / walk           *)
(*                                                                         *)
(* _iglob is a generator: each recursive call is a frame of `stack`,       *)
(* frame k + 1 being the generator frame k iterates as `dirs`.  `active`   *)
(* is the frame that runs (0: the caller of iglob), `ret` what a frame     *)
(* handed to the frame above it.  resolve_pattern is an ordinary function: *)
(* it runs to its end, walk included, inside the frame that called it.     *)
(***************************************************************************)
VARIABLES
    fs,              \* the filesystem globbed
    include_hidden,  \* Globber.include_hidden
    followlinks,     \* Globber.followlinks
    pathname,        \* the pattern given to iglob
    stack,           \* the _iglob generator frames, outermost first
    active,          \* the running frame, 0 for the caller
    ret,             \* the value a frame yielded to its parent, or its end
    results,         \* what iglob has handed to the caller so far
    listed,          \* every os.listdir call made so far, in order
    finished,        \* the caller saw the end of the iterator
    call,            \* the last resolve_pattern call that returned
    walkTodo,        \* walk(): the directories still to visit, next first
    walkNames,       \* resolve_pattern: the names gathered from walk()
    walkFrom,        \* Len(listed) when the walk in progress began
    f_mode,          \* filter(): Globber.norm_paths
    f_sep,           \* filter(): Globber.sep, <<>> for None
    f_pat,           \* filter(): its pattern, as <<prefix, suffix>> of a "*"
    f_names,         \* filter(): its names
    f_i,             \* filter(): how many names its loop has seen
    f_result,        \* filter(): its result list
    f_raised         \* filter(): it has raised re.error

vars == <<fs, include_hidden, followlinks, pathname, stack, active, ret,
          results, listed, finished, call, walkTodo, walkNames, walkFrom,
          f_mode, f_sep, f_pat, f_names, f_i, f_result, f_raised>>

\* the variables of a direct call of Globber.filter
filterVars == <<f_mode, f_sep, f_pat, f_names, f_i, f_result, f_raised>>

\* Globber.norm_paths and Globber.sep as the class sets them
norm_paths == "none"
sep == <<>>

CURDIR == <<".">>
GLOBSTAR == <<"*", "*">>

\* os.pardir
PARDIR == <<".", ".">>

\* the segments patterns are built from: the last is a class re rejects
SegSet == {<<>>, nA, nB, CURDIR, PARDIR, <<"*">>, GLOBSTAR, <<".", "*">>,
           <<"?", "*">>,
           <<"[", "a", "-", "c", "]">>, <<"[", "c", "-", "a", "]">>}

RECURSIVE JoinSegs(_)
\* the segments with os.sep between them
JoinSegs(segs) ==
    IF Len(segs) = 1 THEN segs[1]
    ELSE segs[1] \o <<SLASH>> \o JoinSegs(Tail(segs))

Patterns ==
    {JoinSegs(segs) : segs \in UNION {[1..n -> SegSet] : n \in 1..MaxSegs}}

\* the patterns of at most MaxLoopSegs segments, at most MaxLoopStars of
\* them "**"
LoopPatterns ==
    {JoinSegs(segs) :
        segs \in {t \in UNION {[1..n -> SegSet] : n \in 1..MaxLoopSegs} :
                     Cardinality({i \in DOMAIN t : t[i] = GLOBSTAR})
                         <= MaxLoopStars}}

NoRet == [kind |-> "none", path |-> <<>>, groups |-> <<>>]
StopRet == [kind |-> "stop", path |-> <<>>, groups |-> <<>>]
RaisedRet == [kind |-> "error", path |-> <<>>, groups |-> <<>>]
ValueRet(path, groups) == [kind |-> "value", path |-> path, groups |-> groups]

NoCall == [dirname |-> <<>>, pattern |-> <<>>, with_root |-> FALSE,
           rootcall |-> FALSE, names |-> <<>>, out |-> <<>>, n |-> 0]

\* a fresh generator frame of _iglob(pathname, rootcall)
Frame(p, rootcall) ==
    [pathname |-> p, rootcall |-> rootcall, pc |-> "start",
     dirname |-> <<>>, basename |-> <<>>, recurse |-> FALSE,
     dirs |-> <<>>, dir |-> <<>>, dir_groups |-> <<>>, pending |-> <<>>]

\* iglob(pathname): the generator is created, nothing of it has run
Init ==
    /\ fs \in FSNames
    /\ include_hidden \in BOOLEAN
    /\ followlinks \in BOOLEAN
    /\ pathname \in IF fs = "link" /\ followlinks THEN LoopPatterns
                                                   ELSE Patterns
    /\ stack = <<Frame(pathname, TRUE)>>
    /\ active = 0
    /\ ret = NoRet
    /\ results = <<>>
    /\ listed = <<>>
    /\ finished = FALSE
    /\ call = NoCall
    /\ walkTodo = <<>>
    /\ walkNames = <<>>
    /\ walkFrom = 0
    /\ f_mode = norm_paths
    /\ f_sep = sep
    /\ f_pat = <<<<>>, <<>>>>
    /\ f_names = <<>>
    /\ f_i = 0
    /\ f_result = <<>>
    /\ f_raised = FALSE

\* what no step of iglob changes
Config == <<fs, include_hidden, followlinks, pathname, filterVars>>

\* frame k yields a value: to the caller when k is the outermost frame
Yield(k, frame, path, groups) ==
    IF k = 1
    THEN /\ results' = Append(results, [path |-> path, groups |-> groups,
                                        nlisted |-> Len(listed)])
         /\ ret' = NoRet
         /\ active' = 0
         /\ stack' = [stack EXCEPT ![k] = frame]
         /\ finished' = finished
    ELSE /\ ret' = ValueRet(path, groups)
         /\ active' = k - 1
         /\ stack' = [stack EXCEPT ![k] = frame]
         /\ UNCHANGED <<results, finished>>

\* frame k returns: its generator is exhausted
Return(k) ==
    IF k = 1
    THEN /\ finished' = TRUE
         /\ active' = 0
         /\ ret' = NoRet
         /\ stack' = [stack EXCEPT ![k].pc = "done"]
         /\ UNCHANGED results
    ELSE /\ ret' = StopRet
         /\ active' = k - 1
         /\ stack' = [stack EXCEPT ![k].pc = "done"]
         /\ UNCHANGED <<results, finished>>

\* the caller asks for the next result
Request ==
    /\ active = 0
    /\ ~finished
    /\ active' = 1
    /\ UNCHANGED <<Config, stack, ret, results, listed, finished, call,
                   walkTodo, walkNames, walkFrom>>

\* a variant that yields the pattern without asking whether it exists
ShortCircuitUnchecked ==
    /\ active > 0
    /\ stack[active].pc = "start"
    /\ ~has_magic(stack[active].pathname)
    /\ Yield(active, [stack[active] EXCEPT !.pc = "lit"],
             stack[active].pathname, <<>>)
    /\ UNCHANGED <<Config, listed, call, walkTodo, walkNames, walkFrom>>

\* _iglob: "Short-circuit if no glob magic"
ShortCircuit ==
    /\ active > 0
    /\ stack[active].pc = "start"
    /\ ~has_magic(stack[active].pathname)
    /\ IF exists(fs, stack[active].pathname)
       THEN Yield(active, [stack[active] EXCEPT !.pc = "lit"],
                  stack[active].pathname, <<>>)
       ELSE Return(active)
    /\ UNCHANGED <<Config, listed, call, walkTodo, walkNames, walkFrom>>

\* _iglob resumed after the short-circuit yield: return
ResumeShortCircuit ==
    /\ active > 0
    /\ stack[active].pc = "lit"
    /\ Return(active)
    /\ UNCHANGED <<Config, listed, call, walkTodo, walkNames, walkFrom>>

\* a variant that resolves the directory part by a recursive _iglob on the
\* whole pattern
SplitPathWhole ==
    /\ active > 0
    /\ stack[active].pc = "start"
    /\ has_magic(stack[active].pathname)
    /\ LET p   == stack[active].pathname
           sp  == Split(p)
           rec == sp[1] # p /\ has_magic(sp[1])
           me  == [stack[active] EXCEPT !.dirname = sp[1], !.basename = sp[2],
                                        !.recurse = rec]
       IN  IF rec
           THEN /\ stack' = Append([stack EXCEPT ![active] =
                                       [me EXCEPT !.pc = "recv"]],
                                   Frame(p, FALSE))
                /\ active' = active + 1
           ELSE /\ stack' = [stack EXCEPT ![active] =
                                [me EXCEPT !.pc = "dirs",
                                           !.dirs = <<<<sp[1], <<>>>>>>]]
                /\ active' = active
    /\ UNCHANGED <<Config, ret, results, listed, finished, call,
                   walkTodo, walkNames, walkFrom>>

\* _iglob: split the pattern; a globbed directory part is resolved by a
\* recursive _iglob, whose first item is asked for at once
SplitPath ==
    /\ active > 0
    /\ stack[active].pc = "start"
    /\ has_magic(stack[active].pathname)
    /\ \E p \in {stack[active].pathname} :
       \E sp \in {Split(p)} :
       \E rec \in {sp[1] # p /\ has_magic(sp[1])} :
       \E me \in {[stack[active] EXCEPT !.dirname = sp[1], !.basename = sp[2],
                                        !.recurse = rec]} :
           IF rec
           THEN /\ stack' = Append([stack EXCEPT ![active] =
                                       [me EXCEPT !.pc = "recv"]],
                                   Frame(sp[1], FALSE))
                /\ active' = active + 1
           ELSE /\ stack' = [stack EXCEPT ![active] =
                                [me EXCEPT !.pc = "dirs",
                                           !.dirs = <<<<sp[1], <<>>>>>>]]
                /\ active' = active
    /\ UNCHANGED <<Config, ret, results, listed, finished, call,
                   walkTodo, walkNames, walkFrom>>

\* a variant that asks for the root in the outermost call, not in the nested
GlobstarWithRootInverted(rootcall) == rootcall

\* _iglob line 297: the globstar_with_root argument of resolve_pattern
GlobstarWithRoot(rootcall) == ~rootcall

\* a variant that does not ask whether dirname is a directory
ResolveLiteralAnyDir(f, dirname, pattern) ==
    IF pattern = <<>> \/ exists(f, _join_paths(dirname, pattern, sep))
    THEN <<<<pattern, <<>>>>>>
    ELSE <<>>

\* resolve_pattern: "If no magic, short-circuit, only check for existence"
ResolveLiteral(f, dirname, pattern) ==
    IF pattern = <<>>
    THEN IF isdir(f, dirname) THEN <<<<pattern, <<>>>>>> ELSE <<>>
    ELSE IF exists(f, _join_paths(dirname, pattern, sep))
         THEN <<<<pattern, <<>>>>>>
         ELSE <<>>

\* resolve_pattern: "if not dirname: dirname = os.curdir"
DirOrCurdir(dirname) == IF dirname = <<>> THEN CURDIR ELSE dirname

\* a variant that never puts the directory itself among the names
RootNamesNever(with_root) == <<>>

\* resolve_pattern: names = [''] if globstar_with_root else []
RootNames(with_root) == IF with_root THEN <<<<>>>> ELSE <<>>

\* resolve_pattern: _mkabs, the name of entry s of directory top relative
\* to dirname
MkAbs(top, dirname, s) ==
    _join_paths(SliceFrom(top, Len(dirname) + 1), s, sep)

\* a variant that does not look at how the pattern begins
HiddenFilterAnyPattern(names, pattern, hidden) ==
    IF ~hidden
    THEN SelectSeq(names, LAMBDA x : x = <<>> \/ ~_ishidden(x))
    ELSE names

\* resolve_pattern: "Remove hidden files", keeping the empty string
HiddenFilter(names, pattern, hidden) ==
    IF ~hidden /\ ~_ishidden(pattern)
    THEN SelectSeq(names, LAMBDA x : x = <<>> \/ ~_ishidden(x))
    ELSE names

\* resolve_pattern, from the hidden filter to the end
FilterNames(names, pattern, hidden) ==
    filter(HiddenFilter(names, pattern, hidden), pattern, norm_paths, sep)

\* walk line 147: whether walk descends into new_path
Descends(f, follow, new_path) == follow \/ ~islink(f, new_path)

\* re.error leaves resolve_pattern and every _iglob: the caller of iglob
\* gets the exception in place of the next result, and the generators are
\* over
Raise(k) ==
    /\ finished' = TRUE
    /\ active' = 0
    /\ ret' = RaisedRet
    /\ stack' = [i \in 1..Len(stack) |-> [stack[i] EXCEPT !.pc = "done"]]

\* resolve_pattern goes on, or returns, in the frame that called it
Goes ==
    /\ ret' = NoRet
    /\ UNCHANGED <<active, finished>>

\* the record of a resolve_pattern call that returned
CallRec(frame, dir, names, out) ==
    [dirname |-> dir, pattern |-> frame.basename,
     with_root |-> GlobstarWithRoot(frame.rootcall),
     rootcall |-> frame.rootcall, names |-> names, out |-> out,
     n |-> call.n + 1]

\* frame k takes <<dir, groups>> from dirs and calls resolve_pattern on it.
\* Without "**" the call returns at once, with at most one listdir; with
\* "**" it starts walk(dirname).
ResolveStart(k, dir, groups) ==
    \E frame \in {[stack[k] EXCEPT !.dir = dir, !.dir_groups = groups]},
       dirname \in {DirOrCurdir(dir)} :
    \E pattern \in {frame.basename} :
        IF ~has_magic(pattern)
        THEN \E out \in {ResolveLiteral(fs, dir, pattern)} :
                 /\ stack' = [stack EXCEPT ![k] =
                                 [frame EXCEPT !.pc = "names", !.pending = out]]
                 /\ call' = CallRec(frame, dir, <<>>, out)
                 /\ Goes
                 /\ UNCHANGED <<listed, walkTodo, walkNames, walkFrom>>
        ELSE IF pattern = GLOBSTAR
        THEN /\ stack' = [stack EXCEPT ![k] = [frame EXCEPT !.pc = "walk"]]
             /\ walkNames' = RootNames(GlobstarWithRoot(frame.rootcall))
             /\ walkTodo' = <<dirname>>
             /\ walkFrom' = Len(listed)
             /\ Goes
             /\ UNCHANGED <<listed, call>>
        ELSE \E r \in {listdir(fs, dirname)} :
             IF r.ok /\ FilterRaises(pattern, norm_paths, sep)
             THEN /\ Raise(k)
                  /\ listed' = Append(listed, dirname)
                  /\ UNCHANGED <<call, walkTodo, walkNames, walkFrom>>
             ELSE
             \E out \in {IF r.ok
                         THEN FilterNames(r.names, pattern, include_hidden)
                         ELSE <<>>} :
                 /\ stack' = [stack EXCEPT ![k] =
                                 [frame EXCEPT !.pc = "names", !.pending = out]]
                 /\ listed' = Append(listed, dirname)
                 /\ call' = CallRec(frame, dir, r.names, out)
                 /\ Goes
                 /\ UNCHANGED <<walkTodo, walkNames, walkFrom>>

\* _iglob over dirs = [(dirname, ())]: the next item, or the end
NextLiteralDir ==
    /\ active > 0
    /\ stack[active].pc = "dirs"
    /\ IF stack[active].dirs = <<>>
       THEN /\ Return(active)
            /\ UNCHANGED <<listed, call, walkTodo, walkNames, walkFrom>>
       ELSE /\ ResolveStart(active, stack[active].dirs[1][1],
                            stack[active].dirs[1][2])
            /\ UNCHANGED results
    /\ UNCHANGED Config

\* _iglob over dirs = self._iglob(dirname, False): the recursive generator
\* has yielded its next directory, or has ended
ReceiveDir ==
    /\ active > 0
    /\ stack[active].pc = "recv"
    /\ ret.kind # "none"
    /\ IF ret.kind = "stop"
       THEN /\ finished' = (finished \/ active = 1)
            /\ active' = active - 1
            /\ ret' = IF active = 1 THEN NoRet ELSE StopRet
            /\ stack' = [SubSeq(stack, 1, active) EXCEPT ![active].pc = "done"]
            /\ UNCHANGED <<results, listed, call, walkTodo, walkNames, walkFrom>>
       ELSE /\ ResolveStart(active, ret.path, ret.groups)
            /\ UNCHANGED results
    /\ UNCHANGED Config

\* walk(top): list the next directory; its entries are names for
\* resolve_pattern, and those walk descends into are visited next, before
\* the directories that were waiting.  A directory that cannot be listed
\* ends that walk() call.
WalkStep ==
    /\ active > 0
    /\ stack[active].pc = "walk"
    /\ walkTodo # <<>>
    /\ \E top \in {Head(walkTodo)}, dirname \in {DirOrCurdir(stack[active].dir)} :
       \E r \in {listdir(fs, top)} :
       LET paths   == [i \in 1..Len(r.names) |->
                          _join_paths(top, r.names[i], sep)]
           below   == SelectSeq(paths,
                                LAMBDA q : Descends(fs, followlinks, q))
       IN  /\ listed' = Append(listed, top)
           /\ IF r.ok
              THEN /\ walkNames' = walkNames \o
                          [i \in 1..Len(r.names) |->
                              MkAbs(top, dirname, r.names[i])]
                   /\ walkTodo' = below \o Tail(walkTodo)
              ELSE /\ walkNames' = walkNames
                   /\ walkTodo' = Tail(walkTodo)
    /\ UNCHANGED <<Config, stack, active, ret, results, finished, call,
                   walkFrom>>

\* a variant that hands out the names as soon as walk has some
WalkDoneEarly ==
    /\ active > 0
    /\ stack[active].pc = "walk"
    /\ walkTodo = <<>> \/ walkNames # <<>>
    /\ \E out \in {FilterNames(walkNames, <<"*">>, include_hidden)} :
           /\ stack' = [stack EXCEPT ![active].pc = "names",
                                     ![active].pending = out]
           /\ call' = CallRec(stack[active], stack[active].dir, walkNames, out)
    /\ walkNames' = <<>>
    /\ walkTodo' = <<>>
    /\ UNCHANGED <<Config, active, ret, results, listed, finished, walkFrom>>

\* resolve_pattern after the walk: "**" is matched as "*"
WalkDone ==
    /\ active > 0
    /\ stack[active].pc = "walk"
    /\ walkTodo = <<>>
    /\ \E out \in {FilterNames(walkNames, <<"*">>, include_hidden)} :
           /\ stack' = [stack EXCEPT ![active].pc = "names",
                                     ![active].pending = out]
           /\ call' = CallRec(stack[active], stack[active].dir, walkNames, out)
    /\ walkNames' = <<>>
    /\ UNCHANGED <<Config, active, ret, results, listed, finished, walkTodo,
                   walkFrom>>

\* _iglob: yield the next name resolve_pattern gave for the directory
YieldName ==
    /\ active > 0
    /\ stack[active].pc = "names"
    /\ stack[active].pending # <<>>
    /\ LET frame == stack[active]
           item  == Head(frame.pending)
       IN  Yield(active, [frame EXCEPT !.pending = Tail(frame.pending)],
                 _join_paths(frame.dir, item[1], sep),
                 frame.dir_groups \o item[2])
    /\ UNCHANGED <<Config, listed, call, walkTodo, walkNames, walkFrom>>

\* _iglob: the names of this directory are used up; on to the next of dirs
AdvanceDirs ==
    /\ active > 0
    /\ stack[active].pc = "names"
    /\ stack[active].pending = <<>>
    /\ IF stack[active].recurse
       THEN /\ stack' = [stack EXCEPT ![active].pc = "recv"]
            /\ active' = active + 1
       ELSE /\ stack' = [stack EXCEPT ![active].pc = "dirs",
                                      ![active].dirs = Tail(stack[active].dirs)]
            /\ active' = active
    /\ UNCHANGED <<Config, ret, results, listed, finished, call,
                   walkTodo, walkNames, walkFrom>>

Next ==
    \/ Request
    \/ ShortCircuit
    \/ ResumeShortCircuit
    \/ SplitPath
    \/ NextLiteralDir
    \/ ReceiveDir
    \/ WalkStep
    \/ WalkDone
    \/ YieldName
    \/ AdvanceDirs

Spec == Init /\ [][Next]_vars

\* the generator runs whenever it is asked to, and the caller keeps asking
FairSpec == Spec /\ WF_vars(Next)

(***************************************************************************)
(* Globber.filter called directly, on a pattern prefix + "*" + suffix       *)
(***************************************************************************)
\* the code units of the names and of the literal parts of the pattern
FilterChars == {"a", SLASH, BSLASH}

StrUpTo(chars, n) == UNION {[1..k -> chars] : k \in 0..n}

\* the pattern filter() is given
FilterPat == f_pat[1] \o <<"*">> \o f_pat[2]

\* the values of Globber.sep: None, and one character: the two separators,
\* an ordinary character and a wildcard
SepSet == {<<>>, <<SLASH>>, <<BSLASH>>, <<":">>, <<"*">>}

\* a Globber with the norm_paths mode and the sep chosen; filter(names, pat)
\* is called
InitFilter ==
    /\ fs = "plain"
    /\ include_hidden = FALSE
    /\ followlinks = FALSE
    /\ pathname = <<>>
    /\ stack = <<>>
    /\ active = 0
    /\ ret = NoRet
    /\ results = <<>>
    /\ listed = <<>>
    /\ finished = TRUE
    /\ call = NoCall
    /\ walkTodo = <<>>
    /\ walkNames = <<>>
    /\ walkFrom = 0
    /\ f_mode \in NormModes
    /\ f_sep \in SepSet
    /\ f_pat \in StrUpTo(FilterChars, MaxFixLen) \X StrUpTo(FilterChars, MaxFixLen)
    /\ f_names \in {<<n>> : n \in StrUpTo(FilterChars, MaxNameLen)}
                   \cup {<<n, m>> : n \in StrUpTo(FilterChars, MaxNameLen),
                                    m \in StrUpTo(FilterChars, 1)}
    /\ f_i = 0
    /\ f_result = <<>>
    /\ f_raised = FALSE

\* filter(): _norm_paths(pat) or _compile_pattern raises re.error; the loop
\* is not entered
FilterRaise ==
    /\ f_i = 0
    /\ ~f_raised
    /\ FilterRaises(FilterPat, f_mode, f_sep)
    /\ f_raised' = TRUE
    /\ UNCHANGED <<fs, include_hidden, followlinks, pathname, stack, active,
                   ret, results, listed, finished, call, walkTodo, walkNames,
                   walkFrom, f_mode, f_sep, f_pat, f_names, f_i, f_result>>

\* one turn of the loop of filter(): "for name in names"
FilterStep ==
    /\ ~FilterRaises(FilterPat, f_mode, f_sep)
    /\ f_i < Len(f_names)
    /\ f_i' = f_i + 1
    /\ f_result' = f_result
                       \o FilterOne(f_names[f_i + 1], FilterPat, f_mode, f_sep)
    /\ UNCHANGED <<fs, include_hidden, followlinks, pathname, stack, active,
                   ret, results, listed, finished, call, walkTodo, walkNames,
                   walkFrom, f_mode, f_sep, f_pat, f_names, f_raised>>

NextFilter == FilterRaise \/ FilterStep

SpecFilter == InitFilter /\ [][NextFilter]_vars

(***************************************************************************)
(* Claims                                                                  *)
(***************************************************************************)
\* filter() has returned
FilterDone == f_names # <<>> /\ f_i = Len(f_names)

\* p holds none of the wildcard characters
NoWildcard(p) == \A i \in 1..Len(p) : p[i] \notin {"*", "?", "["}

\* name is prefix + c + suffix for some c
Fits(name, prefix, suffix) ==
    /\ StartsWith(name, prefix)
    /\ EndsWith(name, suffix)
    /\ Len(name) >= Len(prefix) + Len(suffix)

\* the result of filter() is, in input order, the names that fit, each
\* with the single capture that lies between the prefix and the suffix,
\* where names, prefix and suffix are read through norm
FilterResultIs(norm(_)) ==
    LET prefix == norm(f_pat[1])
        suffix == norm(f_pat[2])
        want   == SelectSeq(f_names, LAMBDA n : Fits(norm(n), prefix, suffix))
    IN  /\ Len(f_result) = Len(want)
        /\ \A i \in 1..Len(f_result) :
              /\ f_result[i][1] = want[i]
              /\ Len(f_result[i][2]) = 1
              /\ prefix \o f_result[i][2][1] \o suffix = norm(want[i])

\* C6 as stated: for a pattern prefix + "*" + suffix and names of any code
\* units, under each norm_paths mode, filter returns, and returns in input
\* order exactly the names that start with prefix, end with suffix and are
\* long enough, each with the capture c such that prefix + c + suffix is the
\* name.
C6_Original ==
    /\ ~f_raised
    /\ FilterDone => FilterResultIs(LAMBDA x : x)

\* C6 amended: under the mode None with the backslash as separator filter
\* raises re.error and returns nothing; it raises in no other case.  Where
\* it returns, the statement holds with the names, the prefix and the
\* suffix read through _norm_paths (as they are under the modes true and
\* false, with every slash and backslash replaced by the separator under
\* the mode None), provided the prefix and the suffix so read hold no
\* wildcard character.
C6_FilterSingleStar ==
    /\ f_raised => (f_mode = "none" /\ f_sep = <<BSLASH>>)
    /\ (f_mode = "none" /\ f_sep = <<BSLASH>>) => (f_i = 0 /\ f_result = <<>>)
    /\ (/\ FilterDone
        /\ NoWildcard(_norm_paths(f_pat[1], f_mode, f_sep))
        /\ NoWildcard(_norm_paths(f_pat[2], f_mode, f_sep))) =>
           FilterResultIs(LAMBDA x : _norm_paths(x, f_mode, f_sep))

\* filter() has returned a name whose capture is not empty, under the mode
\* None with a separator set, for a name that holds a separator
C6_Witness ==
    /\ FilterDone
    /\ f_mode = "none"
    /\ f_sep = <<":">>
    /\ f_result # <<>>
    /\ f_result[1][2][1] # <<>>
    /\ \E i \in 1..Len(f_names[1]) : f_names[1][i] \in {SLASH, BSLASH}

\* the results handed out so far, as a set of <<path, captures>>
ResultSet == {<<results[i].path, results[i].groups>> : i \in 1..Len(results)}

\* C1: for a pattern without "*", "?" and "[", iglob hands out the one
\* result <<pattern, no captures>> if the pattern exists and nothing
\* otherwise, and lists no directory.
C1_LiteralPattern ==
    NoWildcard(pathname) =>
        /\ listed = <<>>
        /\ \A i \in 1..Len(results) :
              results[i].path = pathname /\ results[i].groups = <<>>
        /\ Len(results) <= 1
        /\ finished => (Len(results) = 1 <=> exists(fs, pathname))

\* a literal pattern of two segments has been resolved to its one result
C1_Witness ==
    /\ NoWildcard(pathname)
    /\ \E i \in 1..Len(pathname) : pathname[i] = SLASH
    /\ finished
    /\ Len(results) = 1

\* the names listdir gives for directory d ("" is the starting directory)
NamesIn(f, d) ==
    LET r == listdir(f, DirOrCurdir(d))
    IN  {r.names[i] : i \in 1..Len(r.names)}

\* the directories in d that walk(d) descends into
WalkInto(f, follow, d) ==
    {q \in {Join(d, n) : n \in NamesIn(f, d)} :
        isdir(f, q) /\ Descends(f, follow, q)}

\* no directory lies deeper below another than this: the trees are less
\* than three directories deep, and a path through more than SymLoopMax
\* links names nothing
MaxDepth == SymLoopMax + 2

RECURSIVE WalkLevels(_, _, _, _)
\* the directories walk(d) comes to at most k levels below d (all), and
\* those of them at level k (new)
WalkLevels(f, follow, d, k) ==
    IF k = 0 THEN [all |-> {}, new |-> {d}]
    ELSE LET prev == WalkLevels(f, follow, d, k - 1)
             next == UNION {WalkInto(f, follow, q) : q \in prev.new}
         IN  IF prev.new = {} THEN prev
             ELSE [all |-> prev.all \cup next, new |-> next]

\* the directories below d that walk(d) comes to
WalkBelow(f, follow, d) == WalkLevels(f, follow, d, MaxDepth).all

\* the directories strictly below d, at any depth
DirsBelow(f, d) == WalkBelow(f, TRUE, d)

\* the entries strictly below d, at any depth
EntriesBelow(f, d) ==
    UNION {{Join(q, n) : n \in NamesIn(f, q)} : q \in {d} \cup DirsBelow(f, d)}
\* no entry of the filesystem has a name that begins with "."
NoHidden(f) ==
    \A d \in DOMAIN FSOf(f).ls : \A i \in 1..Len(FSOf(f).ls[d]) :
        FSOf(f).ls[d][i][1] # "."

\* no entry of the filesystem is a symbolic link to a directory
NoDirLinks(f) == DOMAIN FSOf(f).link = {}

\* the pattern is "**/B", B one segment that is neither empty nor "**"
IsGlobstarSlash(p) ==
    /\ StartsWith(p, GLOBSTAR \o <<SLASH>>)
    /\ SliceFrom(p, 3) \in SegSet \ {<<>>, GLOBSTAR}

\* what segment B makes of name: whether it matches, and its captures
SegMatch(B, name) ==
    IF NoWildcard(B) THEN [ok |-> name = B, groups |-> <<>>]
    ELSE CompiledMatch(B, name)

\* "**/B": the entries that match B in the starting directory and in every
\* directory below it, each with the directory as the capture of "**"
GlobstarSlashWanted(f, B) ==
    UNION {{<<Join(d, n), <<d>> \o SegMatch(B, n).groups>> :
                n \in {m \in NamesIn(f, d) : SegMatch(B, m).ok}} :
           d \in {<<>>} \cup DirsBelow(f, <<>>)}

\* C2 as stated: in a tree without hidden entries, the results of "**/B"
\* are exactly the entries that match B, directly in the starting
\* directory (with the empty capture for "**") and in every directory
\* transitively below it.
C2_Original ==
    (finished /\ IsGlobstarSlash(pathname) /\ NoHidden(fs)) =>
        ResultSet = GlobstarSlashWanted(fs, SliceFrom(pathname, 3))

\* "**/B" as resolve_pattern reads B: a B with a wildcard is matched
\* against the listing of the starting directory and of every directory
\* below it; a B without one is not looked up in a listing: it is joined
\* to each of these directories, and the path is a result if it exists
GlobstarSlashGives(f, B) ==
    IF NoWildcard(B)
    THEN {<<Join(d, B), <<d>>>> :
             d \in {q \in {<<>>} \cup DirsBelow(f, <<>>) : exists(f, Join(q, B))}}
    ELSE GlobstarSlashWanted(f, B)

\* C2 amended: the same for a B that holds a wildcard, provided symbolic
\* links to directories are followed (followlinks) or the tree has none;
\* for a B without a wildcard the results are the paths join(D, B) that
\* exist, D the starting directory or a directory below it: the entries
\* named B, and D/. and D/.. for every D when B is "." or "..".
C2_GlobstarSlash ==
    (finished /\ IsGlobstarSlash(pathname) /\ NoHidden(fs)
              /\ (followlinks \/ NoDirLinks(fs))) =>
        ResultSet = GlobstarSlashGives(fs, SliceFrom(pathname, 3))

\* a pattern "**/B" has been resolved: to an entry of the starting
\* directory, with the empty capture, and to an entry two directories
\* below it
C2_Witness ==
    /\ finished
    /\ IsGlobstarSlash(pathname) /\ NoHidden(fs)
    /\ \E i \in 1..Len(results) : results[i].groups[1] = <<>>
    /\ \E i \in 1..Len(results) :
          \E k \in 1..Len(results[i].groups[1]) : results[i].groups[1][k] = SLASH
\* a sequence holds x
Holds(seq, x) == \E i \in 1..Len(seq) : seq[i] = x

\* resolve_pattern has returned from a call with the pattern "**"
GlobstarCall == call.n > 0 /\ call.pattern = GLOBSTAR

\* C3 as stated: when resolve_pattern(dirname, "**") is called by a nested
\* _iglob (rootcall false), the empty name that stands for dirname is not
\* among its candidate names; it is among them only when the call comes
\* from the outermost _iglob.
C3_Original ==
    GlobstarCall =>
        /\ ~call.rootcall => ~Holds(call.names, <<>>)
        /\ Holds(call.names, <<>>) => call.rootcall

\* C3 amended: the empty name is among the candidate names of
\* resolve_pattern(dirname, "**") exactly when the call comes from a nested
\* _iglob (rootcall false, "**" in the directory part of the pattern), and
\* then it is returned as a name with the empty capture; a call from the
\* outermost _iglob never has it.
C3_RootNameIffNested ==
    GlobstarCall =>
        /\ Holds(call.names, <<>>) <=> ~call.rootcall
        /\ Holds(call.out, <<<<>>, <<<<>>>>>>) <=> ~call.rootcall

\* both kinds of call have returned: a nested one with the empty name
\* first among its names
C3_Witness ==
    /\ GlobstarCall
    /\ ~call.rootcall
    /\ call.names # <<>> /\ call.names[1] = <<>>
    /\ Len(call.names) > 1
\* the pattern is "**" or "D/**" with a literal D
IsGlobstarLast(p) == Split(p)[2] = GLOBSTAR /\ NoWildcard(Split(p)[1])

\* C4: when "**" is the last segment of the caller's pattern, after a
\* literal directory D or none, the directory walked is not a result:
\* every result is an entry below that directory and has one capture, the
\* path of the entry relative to the directory.
C4_GlobstarLast ==
    IsGlobstarLast(pathname) =>
        LET D     == Split(pathname)[1]
            below == EntriesBelow(fs, D)
        IN  \A i \in 1..Len(results) :
                /\ Len(results[i].groups) = 1
                /\ results[i].groups[1] # <<>>
                /\ ~StartsWith(results[i].groups[1], <<SLASH>>)
                /\ results[i].path = Join(D, results[i].groups[1])
                /\ Comps(results[i].path) # Comps(D)
                /\ results[i].path \in below

\* the captures a segment gives: one for "**", one for each group of the
\* translated segment otherwise
TokenCount(seg) ==
    IF seg = GLOBSTAR THEN 1
    ELSE IF NoWildcard(seg) THEN 0
    ELSE NumGroups(translate(seg))

RECURSIVE TotalTokens(_)
\* the captures a pattern gives, over all its segments
TotalTokens(p) ==
    IF NoWildcard(p) THEN 0
    ELSE TokenCount(Split(p)[2])
            + (IF Split(p)[1] # p THEN TotalTokens(Split(p)[1]) ELSE 0)

RECURSIVE Fill(_, _)
\* the name a translated segment matches with the given captures: each
\* literal as it is, each capture in the place of its token
Fill(toks, groups) ==
    IF toks = <<>> THEN <<>>
    ELSE IF Head(toks).t = "lit"
         THEN <<CHOOSE c \in Head(toks).chars : TRUE>> \o Fill(Tail(toks), groups)
         ELSE Head(groups) \o Fill(Tail(toks), Tail(groups))

\* g is the name, relative to directory d, of d itself (the empty name) or
\* of an entry below it
RelativeName(d, g) ==
    /\ ~StartsWith(g, <<SLASH>>)
    /\ exists(fs, Join(DirOrCurdir(d), g))

\* the captures are those of the segment on the name they spell; the
\* capture of "**", resolved in directory d, is a name relative to d
SegCaptures(seg, groups, d) ==
    IF seg = GLOBSTAR THEN RelativeName(d, groups[1])
    ELSE LET m == CompiledMatch(seg, Fill(translate(seg), groups))
         IN  m.ok /\ m.groups = groups

RECURSIVE Subst(_, _)
\* the path that pattern p spells when its captures, from left to right, are
\* put in the place of its wildcards, segment by segment: [ok, path]
Subst(p, groups) ==
    IF NoWildcard(p) THEN [ok |-> groups = <<>>, path |-> p]
    ELSE LET d  == Split(p)[1]
             b  == Split(p)[2]
             nd == Len(groups) - TokenCount(b)
             gb == SubSeq(groups, nd + 1, Len(groups))
             dp == IF d # p /\ ~NoWildcard(d) THEN Subst(d, SubSeq(groups, 1, nd))
                   ELSE [ok |-> nd = 0, path |-> d]
         IN  IF nd < 0 \/ ~dp.ok \/ ~SegCaptures(b, gb, dp.path)
             THEN [ok |-> FALSE, path |-> <<>>]
             ELSE [ok |-> TRUE,
                   path |-> Join(dp.path, IF b = GLOBSTAR THEN gb[1]
                                          ELSE Fill(translate(b), gb))]

\* C5: the captures of a result are those of its segments from left to
\* right, the directory part before the basename: one for each "*", "?" and
\* closed "[...]", one for a whole "**" segment (the name, of any number of
\* segments or empty, relative to the directory "**" was resolved in), none
\* for a literal segment; with them in the place of the wildcards the
\* pattern spells the path of the result.
C5_CapturesBySegment ==
    \A i \in 1..Len(results) :
        /\ Len(results[i].groups) = TotalTokens(pathname)
        /\ Subst(pathname, results[i].groups)
               = [ok |-> TRUE, path |-> results[i].path]

\* the names of a list of <<name, groups>>
NamesOf(out) == [i \in 1..Len(out) |-> out[i][1]]

\* resolve_pattern has returned from a call with a wildcard pattern other
\* than "**"
SingleLevelCall ==
    call.n > 0 /\ ~NoWildcard(call.pattern) /\ call.pattern # GLOBSTAR

\* C7: a single-level wildcard pattern resolved against a directory never
\* matches an entry whose name begins with "." when include_hidden is off
\* and the pattern does not begin with "."; when include_hidden is on or
\* the pattern begins with ".", it matches hidden entries as any other: the
\* matches are, in listing order, the entries the pattern matches.
C7_HiddenEntries ==
    SingleLevelCall =>
        LET hide == ~include_hidden /\ call.pattern[1] # "."
        IN  /\ hide => \A i \in 1..Len(call.out) : call.out[i][1][1] # "."
            /\ NamesOf(call.out) =
                   SelectSeq(call.names,
                             LAMBDA n : /\ CompiledMatch(call.pattern, n).ok
                                        /\ (hide => n[1] # "."))

\* with include_hidden off, a pattern that begins with "?" was resolved
\* against a directory that has a hidden entry and a plain one: the call
\* returned the plain one alone
C7_Witness ==
    /\ SingleLevelCall
    /\ ~include_hidden
    /\ call.pattern[1] = "?"
    /\ \E i \in 1..Len(call.names) :
          call.names[i][1] = "." /\ CompiledMatch(call.pattern, call.names[i]).ok
    /\ Len(call.out) = 1

\* the pattern is "**/"
IsGlobstarDirs(p) == p = GLOBSTAR \o <<SLASH>>

\* resolve_pattern(dir, "") is right, the results of a pattern that ends in
\* a separator are directories, and "**/" gives the directories below the
\* starting directory when `exactly` holds, directories below it otherwise
TrailingSeparator(exactly) ==
    /\ (call.n > 0 /\ call.pattern = <<>>) =>
          call.out = IF isdir(fs, call.dirname) THEN <<<<<<>>, <<>>>>>> ELSE <<>>
    /\ (pathname # <<>> /\ EndsWith(pathname, <<SLASH>>)) =>
          \A i \in 1..Len(results) :
              /\ isdir(fs, results[i].path)
              /\ EndsWith(results[i].path, <<SLASH>>)
    /\ IsGlobstarDirs(pathname) =>
          LET wanted == {<<d \o <<SLASH>>, <<d>>>> : d \in DirsBelow(fs, <<>>)}
          IN  /\ ResultSet \subseteq wanted
              /\ (finished /\ exactly) => ResultSet = wanted

\* C8 as stated: resolve_pattern(dir, "") returns the one empty name iff
\* dir is a directory, so every result of a pattern that ends in a
\* separator is a directory; "**/" gives exactly the directories strictly
\* below the starting directory, each with the separator at its end, never
\* a file and never the starting directory.
C8_Original == TrailingSeparator(TRUE)

\* C8 amended: the same, where "**/" gives exactly the directories below
\* the starting directory provided that hidden entries are included
\* (include_hidden) or there are none, and that links to directories are
\* followed (followlinks) or there are none; without that, "**/" gives
\* directories below the starting directory, not all of them.
C8_TrailingSeparator ==
    TrailingSeparator(/\ (include_hidden \/ NoHidden(fs))
                      /\ (followlinks \/ NoDirLinks(fs)))

\* "**/" has been resolved to more than one directory, after
\* resolve_pattern(dir, "") was called on a regular file
C8_Witness ==
    /\ IsGlobstarDirs(pathname)
    /\ finished
    /\ Len(results) > 1
    /\ \E q \in EntriesBelow(fs, <<>>) : ~isdir(fs, q)
    /\ call.pattern = <<>> /\ call.out = <<>> /\ exists(fs, call.dirname)
\* every recursive _iglob is on a pattern shorter than its caller's
PatternsShrink ==
    \A k \in 1..(Len(stack) - 1) :
        Len(stack[k + 1].pathname) < Len(stack[k].pathname)

\* the walk in progress has listed no path twice, and will not
WalkListsOnce ==
    (active > 0 /\ stack[active].pc = "walk") =>
        LET seen == SubSeq(listed, walkFrom + 1, Len(listed)) \o walkTodo
        IN  \A i, j \in 1..Len(seen) : seen[i] = seen[j] => i = j

\* C9: over every filesystem, those with symbolic links to directories and
\* to their own ancestors too, with followlinks on or off, iglob consumed to
\* its end terminates after finitely many results; every recursive _iglob
\* is on a pattern strictly shorter than its caller's, and a walk lists no
\* path twice, so each directory finitely many times.
C9_Terminates == [](PatternsShrink /\ WalkListsOnce) /\ <>finished

\* with followlinks on, a walk has gone round the link from a/l to a and
\* on, and iglob has come to its end
C9_Witness ==
    /\ finished
    /\ followlinks
    /\ fs = "link"
    /\ Holds(listed, <<".", SLASH, "a", SLASH, "l", SLASH, "l">>)
    /\ Len(results) > 3
\* some segment of the pattern is "**"
HasGlobstar(p) == \E i \in 1..(Len(p) - 1) : p[i] = "*" /\ p[i + 1] = "*"

\* the first segment of the pattern is "**": the walk starts at os.curdir
IsGlobstarFirst(p) == p = GLOBSTAR \/ StartsWith(p, GLOBSTAR \o <<SLASH>>)

\* "**" alone, or "**" before segments without wildcards
IsGlobstarThenLiteral(p) ==
    IsGlobstarFirst(p) /\ NoWildcard(SliceFrom(p, Len(GLOBSTAR)))

\* what was listed when the caller was handed its first result
ListedAtFirst == SubSeq(listed, 1, results[1].nlisted)

\* nothing is listed before the caller asks for the first result
NoListingBeforeRequest ==
    (active = 0 /\ results = <<>> /\ ~finished) => listed = <<>>

\* C10 as stated: no directory is listed before the caller requests the
\* first result, and for a pattern that contains "**", over a tree of
\* several directories, the first result is handed to the caller before the
\* whole tree has been listed: a caller that stops after the first result
\* causes fewer listings than one that consumes every result.
C10_Original ==
    /\ NoListingBeforeRequest
    /\ (finished /\ HasGlobstar(pathname) /\ results # <<>>) =>
           results[1].nlisted < Len(listed)

\* C10, amended: no directory is listed before the caller requests the
\* first result, but a resolve_pattern call runs to its end before any of
\* its names is yielded.  When "**" is the first segment, every directory
\* walk comes to from os.curdir has been listed when the caller is handed
\* the first result; when only segments without wildcards follow, nothing
\* is listed after the first result, so a caller that stops there causes as
\* many listings as one that consumes every result.
C10_LazyBetweenCalls ==
    /\ NoListingBeforeRequest
    /\ (Len(results) = 1 /\ IsGlobstarFirst(pathname)) =>
           \A d \in {CURDIR} \cup WalkBelow(fs, followlinks, CURDIR) :
               Holds(ListedAtFirst, d)
    /\ (finished /\ results # <<>> /\ IsGlobstarThenLiteral(pathname)) =>
           results[1].nlisted = Len(listed)

\* "**" has given several results over several directories, and every
\* listing was made before the first of them
C10_Witness ==
    /\ finished
    /\ pathname = GLOBSTAR
    /\ Len(results) > 1
    /\ Len(listed) > 2
    /\ results[1].nlisted = Len(listed)

\* C11: every path handed to the caller names an entry of the filesystem:
\* exists(path) holds for each result, for every pattern, those included
\* where "**" is resolved against a directory name that ends in a
\* separator ("/**", "a/**/**").
C11_ResultsExist ==
    \A i \in 1..Len(results) : exists(fs, results[i].path)

\* some component of the path begins with "."
HasHiddenComponent(path) ==
    \E i \in 1..Len(path) :
        path[i] = "." /\ (i = 1 \/ path[i - 1] = SLASH)

\* C12: with include_hidden off, "**" matches no hidden entry at any depth:
\* no name resolve_pattern returns for "**", and so no result of "**" or of
\* "**/B" (B not itself beginning with "."), has a component that begins
\* with ".", be it a child of the walked directory or deeper; no result
\* lies in a hidden directory.
C12_GlobstarNoHidden ==
    ~include_hidden =>
        /\ GlobstarCall =>
               \A i \in 1..Len(call.out) : ~HasHiddenComponent(call.out[i][1])
        /\ (pathname = GLOBSTAR
               \/ (IsGlobstarSlash(pathname) /\ pathname[4] # ".")) =>
               \A i \in 1..Len(results) : ~HasHiddenComponent(results[i].path)
====
